---- MODULE Spec2Model ----
(***************************************************************************)
(* Model of PNG_timestamp_extract.py: OCR of burned-in camera timestamps,  *)
(* parsing of the raw OCR text, weighting of the candidates, the tiered    *)
(* selection (elite shortcut, weighted field vote, weighted whole-string   *)
(* vote, absolute top) and the batch driver that writes one CSV row per    *)
(* image.  The text functions, the banner locator and the selection        *)
(* functions are also run on their own, on inputs drawn from bounded sets  *)
(* (SpecNormalize, SpecRepair, SpecParse, SpecBanner, SpecSelect).         *)
(*                                                                         *)
(* Text is a sequence of one-character strings.  Characters outside ASCII  *)
(* are named ("emdash", "endash", "divslash", ...).  Weights are kept in   *)
(* tenths (3.2 is 32): every weight table entry and every layout bonus of  *)
(* the program is a multiple of 0.1.                                       *)
(***************************************************************************)
EXTENDS Integers, Sequences, FiniteSets, TLC

\* ------------------------------------------------------------------------
\* Characters
\* ------------------------------------------------------------------------
Digits == {"0", "1", "2", "3", "4", "5", "6", "7", "8", "9"}

\* what Python's \s and str.strip() treat as whitespace (those the model uses)
White == {" ", "\n", "\t"}

DigitSeq == <<"0", "1", "2", "3", "4", "5", "6", "7", "8", "9">>

DigitVal(c) == CHOOSE n \in 0..9 : DigitSeq[n + 1] = c

\* int("031") = 31
RECURSIVE ToInt(_)
ToInt(ds) ==
  IF ds = <<>> THEN 0
  ELSE 10 * ToInt(SubSeq(ds, 1, Len(ds) - 1)) + DigitVal(ds[Len(ds)])

\* code points, for Python's string comparison
Ord(c) ==
  CASE c = " " -> 32
    [] c = "-" -> 45
    [] c \in Digits -> 48 + DigitVal(c)
    [] c = ":" -> 58
    [] c = "d" -> 100
    [] c = "e" -> 101
    [] c = "f" -> 102
    [] c = "g" -> 103
    [] c = "h" -> 104
    [] c = "i" -> 105
    [] c = "l" -> 108
    [] c = "m" -> 109
    [] c = "r" -> 114
    [] c = "t" -> 116
    [] c = "u" -> 117

\* Python's a < b on str
RECURSIVE StrLess(_, _)
StrLess(a, b) ==
  IF b = <<>> THEN FALSE
  ELSE IF a = <<>> THEN TRUE
  ELSE IF Ord(Head(a)) # Ord(Head(b)) THEN Ord(Head(a)) < Ord(Head(b))
  ELSE StrLess(Tail(a), Tail(b))

\* ------------------------------------------------------------------------
\* Regular expressions as the program uses them: a pattern is a sequence of
\* elements, each a character class with a repetition range, greedy or lazy,
\* belonging to capture group g (0: none); or a zero-width test.
\* ------------------------------------------------------------------------
Inf == 999

Cls(set, neg, lo, hi, lazy, g) ==
  [kind |-> "cls", set |-> set, neg |-> neg, lo |-> lo, hi |-> hi, lazy |-> lazy, g |-> g]

\* (?=[set]|$)
Ahead(set) ==
  [kind |-> "ahead", set |-> set, neg |-> FALSE, lo |-> 0, hi |-> 0, lazy |-> FALSE, g |-> 0]

\* $
Eol ==
  [kind |-> "eol", set |-> {}, neg |-> FALSE, lo |-> 0, hi |-> 0, lazy |-> FALSE, g |-> 0]

Lit(c, g) == Cls({c}, FALSE, 1, 1, FALSE, g)
\* \d{lo,hi}
Dg(lo, hi, g) == Cls(Digits, FALSE, lo, hi, FALSE, g)
\* \D{lo,hi}
NonDg(lo, hi) == Cls(Digits, TRUE, lo, hi, FALSE, 0)
\* \s{lo,hi}
Ws(lo, hi) == Cls(White, FALSE, lo, hi, FALSE, 0)
\* .{lo,hi} and .{lo,hi}?
Dot(lo, hi, lazy) == Cls({"\n"}, TRUE, lo, hi, lazy, 0)

InCls(e, c) == (c \in e.set) # e.neg

\* number of characters from pos on that are in the class, at most cap
RECURSIVE RunLen(_, _, _, _)
RunLen(e, s, pos, cap) ==
  IF cap = 0 \/ pos > Len(s) \/ ~InCls(e, s[pos]) THEN 0
  ELSE 1 + RunLen(e, s, pos + 1, cap - 1)

Fail == <<-1>>

\* Backtracking match of elements k.. of pat at pos: the end position of
\* each element, or Fail.  Greedy elements try the longest run first,
\* lazy ones the shortest.
RECURSIVE MatchFrom(_, _, _, _)
RECURSIVE TryCount(_, _, _, _, _, _)
MatchFrom(pat, k, s, pos) ==
  IF k > Len(pat) THEN <<>>
  ELSE LET e == pat[k] IN
    IF e.kind = "ahead" THEN
      IF pos > Len(s) \/ s[pos] \in e.set
      THEN LET r == MatchFrom(pat, k + 1, s, pos)
           IN IF r = Fail THEN Fail ELSE <<pos>> \o r
      ELSE Fail
    ELSE IF e.kind = "eol" THEN
      IF pos = Len(s) + 1 \/ (pos = Len(s) /\ s[pos] = "\n")
      THEN LET r == MatchFrom(pat, k + 1, s, pos)
           IN IF r = Fail THEN Fail ELSE <<pos>> \o r
      ELSE Fail
    ELSE LET mx == RunLen(e, s, pos, e.hi) IN
      IF mx < e.lo THEN Fail
      ELSE TryCount(pat, k, s, pos, IF e.lazy THEN e.lo ELSE mx, mx)

TryCount(pat, k, s, pos, n, mx) ==
  LET e == pat[k]
      r == MatchFrom(pat, k + 1, s, pos + n)
  IN IF r # Fail THEN <<pos + n>> \o r
     ELSE IF e.lazy THEN (IF n < mx THEN TryCount(pat, k, s, pos, n + 1, mx) ELSE Fail)
     ELSE (IF n > e.lo THEN TryCount(pat, k, s, pos, n - 1, mx) ELSE Fail)

\* the None of re.match and re.search
NoMatch == [start |-> 0, ends |-> <<>>]

\* the match object [start, ends] of a match r found at p, or NoMatch
MatchObject(p, r) == IF r = Fail THEN NoMatch ELSE [start |-> p, ends |-> r]

\* re.match(pat, s) at position p: a match object or NoMatch
ReMatchAt(pat, s, p) == MatchObject(p, MatchFrom(pat, 1, s, p))

\* re.search(pat, s) from position p on: the leftmost match; m is the
\* match at p
RECURSIVE ReSearchFrom(_, _, _)
RECURSIVE ReSearchOr(_, _, _, _)
ReSearchFrom(pat, s, p) ==
  IF p > Len(s) + 1 THEN NoMatch ELSE ReSearchOr(pat, s, p, ReMatchAt(pat, s, p))

ReSearchOr(pat, s, p, m) == IF m # NoMatch THEN m ELSE ReSearchFrom(pat, s, p + 1)

ReSearch(pat, s) == ReSearchFrom(pat, s, 1)

\* m.end()
MEnd(m) == IF m.ends = <<>> THEN m.start ELSE m.ends[Len(m.ends)]

\* m.group(g)
MGroup(pat, s, m, g) ==
  LET ks == {k \in 1..Len(pat) : pat[k].g = g}
      first == CHOOSE k \in ks : \A j \in ks : k <= j
      last == CHOOSE k \in ks : \A j \in ks : k >= j
      from == IF first = 1 THEN m.start ELSE m.ends[first - 1]
  IN SubSeq(s, from, m.ends[last] - 1)

\* ------------------------------------------------------------------------
\* Patterns of the program
\* ------------------------------------------------------------------------
\* ([:\s])(\d{3})(?=[:\s]|$)
TRIPLET_FIELD ==
  <<Cls({":"} \cup White, FALSE, 1, 1, FALSE, 1), Dg(3, 3, 2), Ahead({":"} \cup White)>>

\* (20\d{2})\D{0,4}(\d{2})\D{0,4}(\d{2})\D{0,6}(\d{1,2})\D{0,4}(\d{2})\D{0,4}(\d{2})
FLEX_PAT ==
  <<Lit("2", 1), Lit("0", 1), Dg(2, 2, 1), NonDg(0, 4), Dg(2, 2, 2), NonDg(0, 4), Dg(2, 2, 3),
    NonDg(0, 6), Dg(1, 2, 4), NonDg(0, 4), Dg(2, 2, 5), NonDg(0, 4), Dg(2, 2, 6)>>

\* (20\d{2})\D{0,5}(\d{2})\D{0,5}(\d{2}).{0,12}?(\d{1,2})\D{0,3}(\d{2})\D{0,3}(\d{2})
DATE_THEN_TIME_1OR2H ==
  <<Lit("2", 1), Lit("0", 1), Dg(2, 2, 1), NonDg(0, 5), Dg(2, 2, 2), NonDg(0, 5), Dg(2, 2, 3),
    Dot(0, 12, TRUE), Dg(1, 2, 4), NonDg(0, 3), Dg(2, 2, 5), NonDg(0, 3), Dg(2, 2, 6)>>

TS_PATTERNS ==
  << \* (20\d{2})-(\d{2})-(\d{2})[ T](\d{2}):(\d{2}):(\d{2})
     <<Lit("2", 1), Lit("0", 1), Dg(2, 2, 1), Lit("-", 0), Dg(2, 2, 2), Lit("-", 0), Dg(2, 2, 3),
       Cls({" ", "T"}, FALSE, 1, 1, FALSE, 0), Dg(2, 2, 4), Lit(":", 0), Dg(2, 2, 5),
       Lit(":", 0), Dg(2, 2, 6)>>,
     \* (20\d{2})(\d{2})(\d{2})[ T]?(\d{2})(\d{2})(\d{2})
     <<Lit("2", 1), Lit("0", 1), Dg(2, 2, 1), Dg(2, 2, 2), Dg(2, 2, 3),
       Cls({" ", "T"}, FALSE, 0, 1, FALSE, 0), Dg(2, 2, 4), Dg(2, 2, 5), Dg(2, 2, 6)>>,
     \* (20\d{2})-(\d{2})-(\d{2}).{0,3}(\d{2}).{0,3}(\d{2}).{0,3}(\d{2})
     <<Lit("2", 1), Lit("0", 1), Dg(2, 2, 1), Lit("-", 0), Dg(2, 2, 2), Lit("-", 0), Dg(2, 2, 3),
       Dot(0, 3, FALSE), Dg(2, 2, 4), Dot(0, 3, FALSE), Dg(2, 2, 5), Dot(0, 3, FALSE),
       Dg(2, 2, 6)>> >>

\* [\/\\∕⁄／＼]
SLASH_LIKE == {"/", "\\", "divslash", "fracslash", "fullslash", "fullbackslash"}

\* (20\d{2})\D{0,4}(\d{2})\D{0,4}(\d{2})
DATE_ANCHOR ==
  <<Lit("2", 1), Lit("0", 1), Dg(2, 2, 1), NonDg(0, 4), Dg(2, 2, 2), NonDg(0, 4), Dg(2, 2, 3)>>

\* (\d{1,2})\s*:\s*(\d{2})\s*:\s*(\d{2})
TIME_COLONS ==
  <<Dg(1, 2, 1), Ws(0, Inf), Lit(":", 0), Ws(0, Inf), Dg(2, 2, 2), Ws(0, Inf), Lit(":", 0),
    Ws(0, Inf), Dg(2, 2, 3)>>

\* (20\d{2})
YEAR_PAT == <<Lit("2", 1), Lit("0", 1), Dg(2, 2, 1)>>

\* (\d\D?\d)
PAIR_PAT == <<Dg(1, 1, 1), Cls(Digits, TRUE, 0, 1, FALSE, 1), Dg(1, 1, 1)>>

\* ^\s*(\d)\D?(\d)\s*$
PAIRIFY_PAT == <<Ws(0, Inf), Dg(1, 1, 1), NonDg(0, 1), Dg(1, 1, 2), Ws(0, Inf), Eol>>

\* :[0-9]{3}(?=[:\s]|$)
RESIDUAL_TRIPLET == <<Lit(":", 0), Dg(3, 3, 0), Ahead({":"} \cup White)>>

\* :[0-9]{2}\s*:\s*[0-9]{2}
TIME_TAIL ==
  <<Lit(":", 0), Dg(2, 2, 0), Ws(0, Inf), Lit(":", 0), Ws(0, Inf), Dg(2, 2, 0)>>

\* ------------------------------------------------------------------------
\* Text utilities
\* ------------------------------------------------------------------------
\* str.replace(a, b) for single characters, b possibly empty
RECURSIVE ReplaceChar(_, _, _)
ReplaceChar(s, a, b) ==
  IF s = <<>> THEN <<>>
  ELSE (IF Head(s) = a THEN b ELSE <<Head(s)>>) \o ReplaceChar(Tail(s), a, b)

RECURSIVE LStrip(_)
LStrip(s) == IF s # <<>> /\ Head(s) \in White THEN LStrip(Tail(s)) ELSE s

RECURSIVE RStrip(_)
RStrip(s) ==
  IF s # <<>> /\ s[Len(s)] \in White THEN RStrip(SubSeq(s, 1, Len(s) - 1)) ELSE s

\* str.strip()
Strip(s) == RStrip(LStrip(s))

\* re.sub of a run pattern [set]{min,} by repl
RECURSIVE SubRuns(_, _, _, _)
SubRuns(s, set, min, repl) ==
  IF s = <<>> THEN <<>>
  ELSE LET n == RunLen(Cls(set, FALSE, 0, Inf, FALSE, 0), s, 1, Inf)
       IN IF n >= min THEN repl \o SubRuns(SubSeq(s, n + 1, Len(s)), set, min, repl)
          ELSE <<Head(s)>> \o SubRuns(Tail(s), set, min, repl)

RECURSIVE RemoveAll(_, _)
RemoveAll(s, set) ==
  IF s = <<>> THEN <<>>
  ELSE (IF Head(s) \in set THEN <<>> ELSE <<Head(s)>>) \o RemoveAll(Tail(s), set)

\* _fix without the test of the first digit
FixAnyLead(g1, tri) ==
  LET last2 == SubSeq(tri, 2, 3)
  IN IF (\A i \in 1..2 : last2[i] \in Digits) /\ 0 <= ToInt(last2) /\ ToInt(last2) <= 59
     THEN g1 \o last2
     ELSE g1 \o tri

\* _fix of repair_time_triplets on the groups g1 = m.group(1), tri = m.group(2)
FixGroups(g1, tri) ==
  LET last2 == SubSeq(tri, 2, 3)
  IN IF tri[1] \in {"1", "0"} /\ (\A i \in 1..2 : last2[i] \in Digits)
        /\ 0 <= ToInt(last2) /\ ToInt(last2) <= 59
     THEN g1 \o last2
     ELSE g1 \o tri

\* the replacement function of repair_time_triplets
TripletFix(t, m) == FixGroups(MGroup(TRIPLET_FIELD, t, m, 1), MGroup(TRIPLET_FIELD, t, m, 2))

\* TRIPLET_FIELD.sub(_fix, s), from position p on; m is the next match
RECURSIVE RepairFrom(_, _)
RECURSIVE RepairAt(_, _, _)
RepairFrom(s, p) == RepairAt(s, p, ReSearchFrom(TRIPLET_FIELD, s, p))

RepairAt(s, p, m) ==
  IF m = NoMatch THEN SubSeq(s, p, Len(s))
  ELSE SubSeq(s, p, m.start - 1) \o TripletFix(s, m) \o RepairFrom(s, MEnd(m))

repair_time_triplets(s) == RepairFrom(s, 1)

\* normalize_ocr without the replacement of the lower-case letters
NormalizeUpperOnly(s) ==
  IF s = <<>> THEN <<>>
  ELSE LET t1 == Strip(ReplaceChar(s, "\n", <<" ">>))
           t2 == ReplaceChar(ReplaceChar(ReplaceChar(ReplaceChar(
                 ReplaceChar(ReplaceChar(t1,
                   "O", <<"0">>), "I", <<"1">>),
                   "S", <<"5">>), "B", <<"8">>), "emdash", <<"-">>), "endash", <<"-">>)
           t3 == RemoveAll(t2, SLASH_LIKE)
           t4 == SubRuns(t3, White, 1, <<" ">>)
           t5 == SubRuns(t4, {":"}, 2, <<":">>)
       IN SubRuns(t5, {"-"}, 2, <<"-">>)

normalize_ocr(s) ==
  IF s = <<>> THEN <<>>
  ELSE LET t1 == Strip(ReplaceChar(s, "\n", <<" ">>))
           t2 == ReplaceChar(ReplaceChar(ReplaceChar(ReplaceChar(
                 ReplaceChar(ReplaceChar(ReplaceChar(ReplaceChar(t1,
                   "O", <<"0">>), "o", <<"0">>), "I", <<"1">>), "l", <<"1">>),
                   "S", <<"5">>), "B", <<"8">>), "emdash", <<"-">>), "endash", <<"-">>)
           t3 == RemoveAll(t2, SLASH_LIKE)
           t4 == SubRuns(t3, White, 1, <<" ">>)
           t5 == SubRuns(t4, {":"}, 2, <<":">>)
       IN SubRuns(t5, {"-"}, 2, <<"-">>)

\* ------------------------------------------------------------------------
\* datetime
\* ------------------------------------------------------------------------
IsLeap(y) == (y % 4 = 0) /\ ((y % 100 # 0) \/ (y % 400 = 0))

DaysInMonth(y, M) ==
  IF M = 2 THEN (IF IsLeap(y) THEN 29 ELSE 28)
  ELSE IF M \in {4, 6, 9, 11} THEN 30 ELSE 31

\* dt.datetime(y, M, d, h, m, s) does not raise ValueError
ValidDateTime(f) ==
  /\ 1 <= f[1] /\ f[1] <= 9999
  /\ 1 <= f[2] /\ f[2] <= 12
  /\ 1 <= f[3] /\ f[3] <= DaysInMonth(f[1], f[2])
  /\ 0 <= f[4] /\ f[4] <= 23
  /\ 0 <= f[5] /\ f[5] <= 59
  /\ 0 <= f[6] /\ f[6] <= 59

\* zero-padded decimal of n on w digits
RECURSIVE Pad(_, _)
Pad(n, w) == IF w = 0 THEN <<>> ELSE Pad(n \div 10, w - 1) \o <<DigitSeq[(n % 10) + 1]>>

\* dtobj.strftime("%Y-%m-%d %H:%M:%S")
strftime(d) ==
  Pad(d[1], 4) \o <<"-">> \o Pad(d[2], 2) \o <<"-">> \o Pad(d[3], 2) \o <<" ">>
  \o Pad(d[4], 2) \o <<":">> \o Pad(d[5], 2) \o <<":">> \o Pad(d[6], 2)

\* ------------------------------------------------------------------------
\* Parsing
\* ------------------------------------------------------------------------
\* the (None, None) of the parser and the None of the loose extractor
None == [dt |-> <<>>, parts |-> <<>>]

\* an uncaught ValueError
Raised == [dt |-> <<"ValueError">>, parts |-> <<>>]

\* map(int, m.groups()) for a six-group pattern
SixGroups(pat, t, m) == [g \in 1..6 |-> ToInt(MGroup(pat, t, m, g))]

\* the six numbers returned without the call of dt.datetime
TryUnchecked(f) == [dt |-> f, parts |-> f]

\* return dt.datetime(...), (...) inside try; None on ValueError
TryDateTime(f) == IF ValidDateTime(f) THEN [dt |-> f, parts |-> f] ELSE None

\* _pairify after its re.match gave m; -1 stands for the ValueError("not a pair")
PairOf(two, m) ==
  IF m = NoMatch THEN -1
  ELSE ToInt(MGroup(PAIRIFY_PAT, two, m, 1) \o MGroup(PAIRIFY_PAT, two, m, 2))

pairify(two) == PairOf(two, ReMatchAt(PAIRIFY_PAT, two, 1))

\* next_pair after its re.search on rest = t[start_idx:] gave m
PairAt(rest, start_idx, m) ==
  IF m = NoMatch THEN <<-2, 0>>
  ELSE <<pairify(MGroup(PAIR_PAT, rest, m, 1)), start_idx + MEnd(m) - 1>>

PairIn(rest, start_idx) == PairAt(rest, start_idx, ReSearch(PAIR_PAT, rest))

\* next_pair of _grab_fields_loose: <<val, span_end>>, <<-2, 0>> for (None, None)
next_pair(t, start_idx) == PairIn(SubSeq(t, start_idx, Len(t)), start_idx)

\* the loop of _grab_fields_loose: the fields read so far, None or Raised;
\* np is what next_pair gave in this turn
RECURSIVE LooseFields(_, _, _, _)
RECURSIVE LooseTurn(_, _, _, _)
LooseFields(t, idx, n, fields) ==
  IF n = 0 THEN [dt |-> fields, parts |-> fields]
  ELSE LooseTurn(t, n, fields, next_pair(t, idx))

LooseTurn(t, n, fields, np) ==
  IF np[1] = -2 THEN None
  ELSE IF np[1] = -1 THEN Raised
  ELSE LooseFields(t, np[2], n - 1, Append(fields, np[1]))

\* the try of _grab_fields_loose on the fields r of the loop
LooseDate(r) == IF r = None \/ r = Raised THEN r ELSE TryDateTime(r.parts)

\* _grab_fields_loose after its re.search for the year gave ymatch
LooseAfterYear(t, ymatch) ==
  IF ymatch = NoMatch THEN None
  ELSE LooseDate(LooseFields(t, MEnd(ymatch), 5, <<ToInt(MGroup(YEAR_PAT, t, ymatch, 1))>>))

grab_fields_loose(t) == LooseAfterYear(t, ReSearch(YEAR_PAT, t))

\* the body of "if m:" for a six-group pattern with match m
SixOf(pat, t, m) == IF m = NoMatch THEN None ELSE TryDateTime(SixGroups(pat, t, m))

\* stages (1) and (3): one six-group pattern
StagePat(pat, t) == SixOf(pat, t, ReSearch(pat, t))

\* stage (4): the strict fallbacks, from pattern i on; r is what pattern i gave
RECURSIVE StrictFrom(_, _)
RECURSIVE StrictOr(_, _, _)
StrictFrom(t, i) ==
  IF i > Len(TS_PATTERNS) THEN None ELSE StrictOr(t, i, StagePat(TS_PATTERNS[i], t))

StrictOr(t, i, r) == IF r # None THEN r ELSE StrictFrom(t, i + 1)

\* stage (0) reading the minute for the hour and the hour for the minute
AnchoredTimeSwapped(t, dm, rest, mtime) ==
  IF mtime = NoMatch THEN None
  ELSE TryDateTime(<<ToInt(MGroup(DATE_ANCHOR, t, dm, 1)),
                     ToInt(MGroup(DATE_ANCHOR, t, dm, 2)),
                     ToInt(MGroup(DATE_ANCHOR, t, dm, 3)),
                     ToInt(MGroup(TIME_COLONS, rest, mtime, 2)),
                     ToInt(MGroup(TIME_COLONS, rest, mtime, 1)),
                     ToInt(MGroup(TIME_COLONS, rest, mtime, 3))>>)

\* stage (0) after the date match dm and the time match mtime in rest
AnchoredTime(t, dm, rest, mtime) ==
  IF mtime = NoMatch THEN None
  ELSE TryDateTime(<<ToInt(MGroup(DATE_ANCHOR, t, dm, 1)),
                     ToInt(MGroup(DATE_ANCHOR, t, dm, 2)),
                     ToInt(MGroup(DATE_ANCHOR, t, dm, 3)),
                     ToInt(MGroup(TIME_COLONS, rest, mtime, 1)),
                     ToInt(MGroup(TIME_COLONS, rest, mtime, 2)),
                     ToInt(MGroup(TIME_COLONS, rest, mtime, 3))>>)

\* stage (0) after the date match dm, rest = t[dm.end():]
AnchoredRest(t, dm, rest) == AnchoredTime(t, dm, rest, ReSearch(TIME_COLONS, rest))

AnchoredDate(t, dm) ==
  IF dm = NoMatch THEN None ELSE AnchoredRest(t, dm, SubSeq(t, MEnd(dm), Len(t)))

\* stage (0): anchor on date, then colonized time
Stage0(t) == AnchoredDate(t, ReSearch(DATE_ANCHOR, t))

\* the cascade on the normalized and repaired text t; s0..s3 are what the
\* stages (0)..(3) gave
After3(t, s3) == IF s3 # None THEN s3 ELSE StrictFrom(t, 1)

After2(t, s2) == IF s2 # None THEN s2 ELSE After3(t, StagePat(FLEX_PAT, t))

After1(t, s1) == IF s1 # None THEN s1 ELSE After2(t, grab_fields_loose(t))

After0(t, s0) == IF s0 # None THEN s0 ELSE After1(t, StagePat(DATE_THEN_TIME_1OR2H, t))

Cascade(t) == After0(t, Stage0(t))

parse_timestamp_flex(raw) ==
  IF raw = <<>> THEN None ELSE Cascade(repair_time_triplets(normalize_ocr(raw)))

\* ------------------------------------------------------------------------
\* Weights (tenths)
\* ------------------------------------------------------------------------
\* the ROIs in the order process_image builds them
RoiTags == <<"full", "left70", "mid60", "right60">>

\* the variants in the order variant_images builds them
VariantTags ==
  <<"cubic|otsu_inv", "cubic|blur_otsu_inv", "cubic|morph_inv", "cubic|adapt_inv",
    "nearest|otsu_inv", "nearest|adapt_inv">>

\* the characters of a ROI tag, for sorting on it
TagChars(tag) ==
  CASE tag = "full" -> <<"f", "u", "l", "l">>
    [] tag = "left70" -> <<"l", "e", "f", "t", "7", "0">>
    [] tag = "mid60" -> <<"m", "i", "d", "6", "0">>
    [] tag = "right60" -> <<"r", "i", "g", "h", "t", "6", "0">>

ROI_WEIGHT == [left70 |-> 32, full |-> 14, mid60 |-> -10, right60 |-> -15]

VARIANT_WEIGHT(v) ==
  CASE v = "cubic|morph_inv" -> 36
    [] v = "cubic|blur_otsu_inv" -> 24
    [] v = "cubic|otsu_inv" -> 12
    [] v = "cubic|adapt_inv" -> 8
    [] v = "nearest|otsu_inv" -> -10
    [] v = "nearest|adapt_inv" -> -12

PREFERRED_ROIS == {"left70", "full"}

PREFERRED_VARS == {"cubic|morph_inv", "cubic|blur_otsu_inv"}

\* str.count(c)
RECURSIVE Count(_, _)
Count(s, c) ==
  IF s = <<>> THEN 0 ELSE (IF Head(s) = c THEN 1 ELSE 0) + Count(Tail(s), c)

\* the bonus of the normalized text t with c colons
LayoutBonus(t, c) ==
  (IF 2 <= c /\ c <= 3 THEN 4 ELSE 0)
  + (IF ReSearch(RESIDUAL_TRIPLET, t) # NoMatch THEN -6 ELSE 0)
  + (IF ReSearch(TIME_TAIL, t) # NoMatch THEN 2 ELSE 0)

NormalizedBonus(t) == LayoutBonus(t, Count(t, ":"))

rough_layout_bonus(raw) == NormalizedBonus(normalize_ocr(raw))

candidate_weight(roi_tag, var_tag, raw) ==
  ROI_WEIGHT[roi_tag] + VARIANT_WEIGHT(var_tag) + rough_layout_bonus(raw)

\* ------------------------------------------------------------------------
\* Selection
\* ------------------------------------------------------------------------
\* -1e9 of the program: below every weight and every score
NEG_1E9 == -1000000000

\* the None of weighted_mode (field values are never negative)
NoVote == -1

\* no candidate: the None of choose_elite_candidate and of a representative
NoCand == [dt |-> <<>>, canon |-> <<>>, parts |-> <<>>, raw |-> <<>>, roi |-> "", var |-> "", w |-> 0]

\* tally[v] of weighted_mode: the weights > 0 of the entries with value v
RECURSIVE TallyOf(_, _, _)
TallyOf(values, weights, v) ==
  IF values = <<>> THEN 0
  ELSE (IF Head(values) = v /\ Head(weights) > 0 THEN Head(weights) ELSE 0)
       + TallyOf(Tail(values), Tail(weights), v)

\* the keys of tally
TallyKeys(values, weights) == {values[i] : i \in {j \in 1..Len(values) : weights[j] > 0}}

\* equal tallies resolved to the larger value
ModeBeforeLarger(v1, t1, v2, t2) == (t1 > t2) \/ (t1 = t2 /\ v1 > v2)

\* kv1 sorts before kv2 under key (-kv[1], kv[0]), integer values
ModeBefore(v1, t1, v2, t2) == (t1 > t2) \/ (t1 = t2 /\ v1 < v2)

\* sorted(tally.items(), key=...)[0][0], keys being those of tally
FirstMode(values, weights, keys) ==
  IF keys = {} THEN NoVote
  ELSE CHOOSE v \in keys : \A u \in keys \ {v} :
         ModeBefore(v, TallyOf(values, weights, v), u, TallyOf(values, weights, u))

\* the mode where every candidate votes with the size of its weight, whatever
\* its sign
ModeAnySign(values, weights) ==
  FirstMode(values,
            [i \in 1..Len(weights) |-> IF weights[i] < 0 THEN 0 - weights[i] ELSE weights[i]],
            {values[i] : i \in 1..Len(values)})

weighted_mode(values, weights) == FirstMode(values, weights, TallyKeys(values, weights))

\* insert c into a list sorted on descending weight, after its equals
RECURSIVE InsertDesc(_, _)
InsertDesc(sorted, c) ==
  IF sorted = <<>> THEN <<c>>
  ELSE IF c.w > Head(sorted).w THEN <<c>> \o sorted
  ELSE <<Head(sorted)>> \o InsertDesc(Tail(sorted), c)

\* the candidates left in the order they were collected
Unranked(cands) == cands

\* sorted(all_cands, key=lambda c: c["w"], reverse=True): stable
RECURSIVE RankedDesc(_)
RankedDesc(cands) ==
  IF cands = <<>> THEN <<>>
  ELSE InsertDesc(RankedDesc(SubSeq(cands, 1, Len(cands) - 1)), cands[Len(cands)])

\* the runner-up's weight
NextWeight(ranked) == IF Len(ranked) > 1 THEN ranked[2].w ELSE NEG_1E9

\* the elite shortcut without the test on the preferred sets
EliteAnyPair(ranked, elite_margin) ==
  IF ranked[1].w >= NextWeight(ranked) + elite_margin THEN ranked[1] ELSE NoCand

\* choose_elite_candidate from "top = ranked[0]" on
EliteOf(ranked, elite_margin) ==
  IF /\ ranked[1].roi \in PREFERRED_ROIS
     /\ ranked[1].var \in PREFERRED_VARS
     /\ ranked[1].w >= NextWeight(ranked) + elite_margin
  THEN ranked[1]
  ELSE NoCand

choose_elite_candidate(all_cands, elite_margin) ==
  IF all_cands = <<>> THEN NoCand ELSE EliteOf(RankedDesc(all_cands), elite_margin)

\* by_key[k] of choose_by_weighted_whole_string
RECURSIVE ByKey(_, _)
ByKey(cands, k) ==
  IF cands = <<>> THEN 0
  ELSE (IF Head(cands).canon = k /\ Head(cands).w > 0 THEN Head(cands).w ELSE 0)
       + ByKey(Tail(cands), k)

\* the group of the lowest total first
KeyBeforeLowest(k1, t1, k2, t2) == (t1 < t2) \/ (t1 = t2 /\ StrLess(k1, k2))

\* kv1 sorts before kv2 under key (-kv[1], kv[0]), string keys
KeyBefore(k1, t1, k2, t2) == (t1 > t2) \/ (t1 = t2 /\ StrLess(k1, k2))

\* equal weights resolved to the ROI whose tag sorts last
RepBeforeLastRoi(c1, c2) ==
  (c1.w > c2.w) \/ (c1.w = c2.w /\ StrLess(TagChars(c2.roi), TagChars(c1.roi)))

\* c1 sorts before c2 under key (-c["w"], c["roi"])
RepBefore(c1, c2) ==
  (c1.w > c2.w) \/ (c1.w = c2.w /\ StrLess(TagChars(c1.roi), TagChars(c2.roi)))

\* sorted(reps, key=lambda c: (-c["w"], c["roi"]))[0]: the first of the
\* members that no other member sorts before
RECURSIVE FirstRep(_, _)
FirstRep(reps, i) ==
  IF \A j \in 1..Len(reps) : ~RepBefore(reps[j], reps[i]) THEN reps[i]
  ELSE FirstRep(reps, i + 1)

\* [c for c in all_cands if c["canon"] == best_key]
RECURSIVE WithCanon(_, _)
WithCanon(cands, k) ==
  IF cands = <<>> THEN <<>>
  ELSE (IF Head(cands).canon = k THEN <<Head(cands)>> ELSE <<>>) \o WithCanon(Tail(cands), k)

\* return rep["dt"], rep
WithRep(rep) == [dt |-> rep.dt, rep |-> rep]

\* choose_by_weighted_whole_string from "if not by_key" on, keys being
\* those of by_key
BestOfKeys(all_cands, keys) ==
  IF keys = {} THEN [dt |-> <<>>, rep |-> NoCand]
  ELSE WithRep(FirstRep(WithCanon(all_cands,
         CHOOSE k \in keys : \A u \in keys \ {k} :
           KeyBefore(k, ByKey(all_cands, k), u, ByKey(all_cands, u))), 1))

\* returns [dt, rep]; dt = <<>> and rep = NoCand for (None, None)
choose_by_weighted_whole_string(all_cands) ==
  BestOfKeys(all_cands,
             {all_cands[i].canon : i \in {j \in 1..Len(all_cands) : all_cands[j].w > 0}})

\* the six weighted modes, NoVote where the tally is empty
Voted(all_cands) ==
  LET weights == [i \in 1..Len(all_cands) |-> all_cands[i].w]
  IN [f \in 1..6 |-> weighted_mode([i \in 1..Len(all_cands) |-> all_cands[i].parts[f]], weights)]

\* the representative loop of choose_by_weighted_fields from candidate i on
RECURSIVE RepLoop(_, _, _, _, _)
RepLoop(cands, consensus, i, best, rep) ==
  IF i > Len(cands) THEN rep
  ELSE LET c == cands[i]
           score == IF c.dt = consensus THEN c.w ELSE c.w - 5
       IN IF score > best THEN RepLoop(cands, consensus, i + 1, score, c)
          ELSE RepLoop(cands, consensus, i + 1, best, rep)

\* the whole-string result ws returned by choose_by_weighted_fields
ByWholeString(ws, voted) == [dt |-> ws.dt, rep |-> ws.rep, tier |-> "whole", voted |-> voted]

\* the field vote without the datetime(...) test of the six winners
FieldsUnchecked(all_cands, voted) ==
  IF \E f \in 1..6 : voted[f] = NoVote
  THEN [dt |-> <<>>, rep |-> NoCand, tier |-> "none", voted |-> voted]
  ELSE [dt |-> voted, rep |-> RepLoop(all_cands, voted, 1, NEG_1E9, NoCand),
        tier |-> "fields", voted |-> voted]

\* choose_by_weighted_fields once the six fields are voted: [dt, rep] is
\* what it returns, tier tells which return statement was taken
FieldsOf(all_cands, voted) ==
  IF \E f \in 1..6 : voted[f] = NoVote
  THEN [dt |-> <<>>, rep |-> NoCand, tier |-> "none", voted |-> voted]
  ELSE IF ~ValidDateTime(voted)
       THEN ByWholeString(choose_by_weighted_whole_string(all_cands), voted)
  ELSE [dt |-> voted, rep |-> RepLoop(all_cands, voted, 1, NEG_1E9, NoCand),
        tier |-> "fields", voted |-> voted]

choose_by_weighted_fields(all_cands) == FieldsOf(all_cands, Voted(all_cands))

\* the candidate collected first, whatever its weight
FirstCollected(cands, i) == cands[i]

\* max(all_cands, key=lambda c: c["w"]): the first of the heaviest
RECURSIVE MaxByWeight(_, _)
MaxByWeight(cands, i) ==
  IF \A j \in 1..Len(cands) : cands[j].w <= cands[i].w THEN cands[i]
  ELSE MaxByWeight(cands, i + 1)

\* the absolute top: rep = max(...), dt_obj = rep["dt"]
TopOf(top, voted) == [dt |-> top.dt, raw |-> top.raw, tier |-> "top", voted |-> voted]

\* process_image after choose_by_weighted_fields returned byf
AfterFields(all_cands, byf) ==
  IF byf.dt = <<>> THEN TopOf(MaxByWeight(all_cands, 1), byf.voted)
  ELSE [dt |-> byf.dt,
        raw |-> IF byf.rep # NoCand THEN byf.rep.raw ELSE <<>>,
        tier |-> byf.tier, voted |-> byf.voted]

\* process_image after choose_elite_candidate returned elite
AfterElite(all_cands, elite) ==
  IF elite # NoCand
  THEN [dt |-> elite.dt, raw |-> elite.raw, tier |-> "elite", voted |-> <<>>]
  ELSE AfterFields(all_cands, choose_by_weighted_fields(all_cands))

\* process_image from "if not all_cands" on: [dt, raw] is what it returns
\* (dt = <<>> is None); tier tells which return was taken and voted is the
\* six weighted modes when the field vote ran
select(all_cands, elite_margin) ==
  IF all_cands = <<>> THEN [dt |-> <<>>, raw |-> <<>>, tier |-> "unrecognized", voted |-> <<>>]
  ELSE AfterElite(all_cands, choose_elite_candidate(all_cands, elite_margin))

\* ------------------------------------------------------------------------
\* The OCR engine and the batch
\* ------------------------------------------------------------------------
\* bounds of the model
MaxImages == 2

\* the readings that parse, in a run over a folder of one image
MaxCands == 3

\* the readings that parse, over the whole run on a folder of several images
MaxBatchCands == 1

\* the values of --elite_margin tried (tenths; 8 is the default 0.8)
EliteMargins == {0, 8}

\* the clean overlay text of a timestamp, as the engine prints it
Clean(d) == strftime(d) \o <<"\n">>

\* the same text with the colon before the minutes lost and the seconds
\* read with a doubled digit
Doubled(d) ==
  Pad(d[1], 4) \o <<"-">> \o Pad(d[2], 2) \o <<"-">> \o Pad(d[3], 2) \o <<" ">>
  \o Pad(d[4], 2) \o <<" ">> \o Pad(d[5], 2) \o <<":", "1">> \o Pad(d[6], 2) \o <<"\n">>

\* what pytesseract.image_to_string may return; the engine's answer is
\* named by its place in this list
OcrTexts ==
  << Clean(<<2024, 2, 29, 6, 31, 27>>),
     Clean(<<2023, 3, 29, 6, 31, 27>>),
     Doubled(<<2023, 2, 28, 6, 32, 27>>),
     <<>>,
     <<":", ":", "-", "7", "\n">> >>

\* raw = image_to_string(...).strip().replace("\n", " ")
RawOf(text) == ReplaceChar(Strip(text), "\n", <<" ">>)


\* the candidate dictionary collect_candidates_from_roi appends for a reading
\* that parsed to p (the variant image "img" is not modelled)
Candidate(roi_tag, vtag, raw, p) ==
  [dt |-> p.dt, canon |-> strftime(p.dt), parts |-> p.parts, raw |-> raw,
   roi |-> roi_tag, var |-> vtag, w |-> candidate_weight(roi_tag, vtag, raw)]

\* the parse result p of raw and the candidate it makes under every (ROI,
\* variant) pair
Parsed(raw, p) ==
  [raw |-> raw, p |-> p,
   cand |-> [r \in 1..Len(RoiTags) |-> [v \in 1..Len(VariantTags) |->
               IF p \in {None, Raised} THEN NoCand
               ELSE Candidate(RoiTags[r], VariantTags[v], raw, p)]]]

Reading(raw) == Parsed(raw, parse_timestamp_flex(raw))

\* raw, parse result and candidates of every engine text, computed once
Readings == [t \in 1..Len(OcrTexts) |-> Reading(RawOf(OcrTexts[t]))]

\* the answers that yield a candidate, and the others
Parseable == {t \in 1..Len(OcrTexts) : Readings[t].p \notin {None, Raised}}

Unparseable == {t \in 1..Len(OcrTexts) : Readings[t].p \in {None, Raised}}

\* the candidates of collect_candidates_from_roi for the variants j.. of
\* ROI r, texts[j] being what the engine returns for variant j
RECURSIVE CollectFrom(_, _, _, _)
CollectFrom(r, texts, j, cand) ==
  IF j > Len(VariantTags) THEN cand
  ELSE IF Readings[texts[j]].p \notin {None, Raised}
       THEN CollectFrom(r, texts, j + 1, Append(cand, Readings[texts[j]].cand[r][j]))
       ELSE CollectFrom(r, texts, j + 1, cand)

\* the parser lets a ValueError escape on one of the texts
ParseRaises(texts) == \E j \in 1..Len(texts) : Readings[texts[j]].p = Raised

collect_candidates_from_roi(r, texts) == CollectFrom(r, texts, 1, <<>>)

\* ------------------------------------------------------------------------
\* State
\* ------------------------------------------------------------------------
VARIABLES
  pc,            \* where main is: start, imread, ocr, write, done, crashed
  files,         \* the sorted image files of the folder (their basenames)
  elite_margin,  \* --elite_margin, tenths
  fi,            \* index in files of the image being processed
  ri,            \* index in RoiTags of the next ROI to collect
  all_cands,     \* all_cands of the process_image call in progress
  rows,          \* rows of main
  csv,           \* the output file: Absent until written
  ret,           \* the process_image call that has just returned: the image, the
                 \* candidates it selected from, what it returned and by which
                 \* tier; NoRet once main has moved on
  hist,          \* of the image last read: decoded, engine calls that returned,
                 \* readings that parsed, exception raised
  nparsed,       \* readings that parsed so far in the run
  budget,        \* readings the engine lets parse in the run
  txt,           \* the string a text function is called on, outside a run
  stamp,         \* the date and time text was printed from, <<>> if none
  out,           \* what the function called on its own returned
  gray,          \* the grayscale image find_top_black_banner is called on
  band           \* the rows process_image crops from gray

vars == <<pc, files, elite_margin, fi, ri, all_cands, rows, csv, ret, hist, nparsed, budget,
          txt, stamp, out, gray, band>>

\* the variables of a run of main, and those of a function called on its own
run == <<pc, files, elite_margin, fi, ri, all_cands, rows, csv, ret, hist, nparsed, budget>>

call == <<txt, stamp, out, gray, band>>

Absent == <<"absent">>

HEADER == <<"file", "timestamp", "raw_ocr">>

NoRet == [img |-> 0, cands |-> <<>>, dt |-> <<>>, raw |-> <<>>, tier |-> "none", voted |-> <<>>]

NoHist == [img |-> 0, decoded |-> FALSE, calls |-> 0, parsed |-> 0, raised |-> FALSE]

\* no function has been called on its own
NoOut == [fn |-> "none", val |-> <<>>, again |-> <<>>]

NoGray == <<>>

NoBand == [y0 |-> 0, y1 |-> 0, rows |-> {}, best |-> <<"none">>]

NoCall ==
  /\ txt = <<>>
  /\ stamp = <<>>
  /\ out = NoOut
  /\ gray = NoGray
  /\ band = NoBand

\* the state at the entry of main, but for the folder and the budget
Entry ==
  /\ pc = "start"
  /\ elite_margin \in EliteMargins
  /\ fi = 0
  /\ ri = 0
  /\ all_cands = <<>>
  /\ rows = <<>>
  /\ csv = Absent
  /\ ret = NoRet
  /\ hist = NoHist
  /\ nparsed = 0
  /\ NoCall

\* a folder of up to MaxImages images
Init ==
  /\ files \in {[k \in 1..n |-> k] : n \in 0..MaxImages}
  /\ budget = MaxBatchCands
  /\ Entry

\* a folder of one image
InitImage ==
  /\ files = <<1>>
  /\ budget = MaxCands
  /\ Entry

\* a timestamp field that is never left empty
ts_str_or_none(dt_obj) ==
  IF dt_obj # <<>> THEN <<"=", "\"">> \o strftime(dt_obj) \o <<"\"">> ELSE <<"N", "o", "n", "e">>

\* ts_str of main
ts_str(dt_obj) ==
  IF dt_obj # <<>> THEN <<"=", "\"">> \o strftime(dt_obj) \o <<"\"">> ELSE <<>>

\* process_image has returned r for files[fi], having selected from cands:
\* main appends the row and goes to the next file, or to the writing of the
\* CSV after the last one
Returned(r, cands) ==
  /\ ret' = [img |-> fi, cands |-> cands, dt |-> r.dt, raw |-> r.raw, tier |-> r.tier,
             voted |-> r.voted]
  /\ all_cands' = <<>>
  /\ rows' = Append(rows, <<files[fi], ts_str(r.dt), r.raw>>)
  /\ IF fi < Len(files) THEN fi' = fi + 1 /\ pc' = "imread" ELSE fi' = fi /\ pc' = "write"

\* the uncaught exception: the run ends with the traceback, what main held
\* in memory is gone and no CSV is written
Crash ==
  /\ pc' = "crashed"
  /\ hist' = [hist EXCEPT !.raised = TRUE]
  /\ all_cands' = <<>>
  /\ rows' = <<>>
  /\ ret' = NoRet
  /\ UNCHANGED <<fi, ri, nparsed>>

\* main up to the loop
MainStart ==
  /\ pc = "start"
  /\ IF files = <<>>
     THEN pc' = "done" /\ UNCHANGED <<rows, fi>>
     ELSE pc' = "imread" /\ rows' = <<HEADER>> /\ fi' = 1
  /\ UNCHANGED <<files, elite_margin, ri, all_cands, csv, ret, hist, nparsed, budget>>
  /\ UNCHANGED call

\* process_image up to the ROI loop: cv2.imread gives None or an image
ReadImage ==
  /\ pc = "imread"
  /\ \E decoded \in BOOLEAN :
       /\ hist' = [NoHist EXCEPT !.img = fi, !.decoded = decoded]
       /\ IF decoded
          THEN /\ pc' = "ocr"
               /\ ri' = 1
               /\ all_cands' = <<>>
               /\ ret' = NoRet
               /\ UNCHANGED <<rows, fi>>
          ELSE /\ Returned([dt |-> <<>>, raw |-> <<>>, tier |-> "undecodable", voted |-> <<>>],
                           <<>>)
               /\ UNCHANGED ri
  /\ UNCHANGED <<files, elite_margin, csv, nparsed, budget>>
  /\ UNCHANGED call

\* the texts the engine returns for the six variants of one ROI: those of S
\* parse, the others are all the same unparseable text
EngineTexts(S, good, bad) == [j \in 1..Len(VariantTags) |-> IF j \in S THEN good[j] ELSE bad]

\* the sets of variants that may parse with what is left of the budget
MayParse == {X \in SUBSET (1..Len(VariantTags)) : Cardinality(X) <= budget - nparsed}

\* hist after the six engine calls of one ROI returned texts
Called(texts, cand) ==
  [hist EXCEPT !.calls = @ + Len(texts), !.parsed = @ + Len(cand)]

\* one turn of the ROI loop, not the last: collect_candidates_from_roi on
\* RoiTags[ri]
CollectRoi ==
  /\ pc = "ocr"
  /\ ri < Len(RoiTags)
  /\ \E S \in MayParse : \E good \in [S -> Parseable] : \E bad \in Unparseable :
     \E texts \in {EngineTexts(S, good, bad)} :
     \E cand \in {collect_candidates_from_roi(ri, texts)} :
          IF ParseRaises(texts)
          THEN Crash
          ELSE /\ all_cands' = all_cands \o cand
               /\ nparsed' = nparsed + Len(cand)
               /\ hist' = Called(texts, cand)
               /\ ri' = ri + 1
               /\ pc' = "ocr"
               /\ UNCHANGED <<fi, rows, ret>>
  /\ UNCHANGED <<files, elite_margin, csv, budget>>
  /\ UNCHANGED call

\* the last turn of the ROI loop and the rest of process_image: the
\* selection and the return to main
FinishImage ==
  /\ pc = "ocr"
  /\ ri = Len(RoiTags)
  /\ \E S \in MayParse : \E good \in [S -> Parseable] : \E bad \in Unparseable :
     \E texts \in {EngineTexts(S, good, bad)} :
     \E cands \in {all_cands \o collect_candidates_from_roi(ri, texts)} :
     \E r \in {select(cands, elite_margin)} :
          IF ParseRaises(texts)
          THEN Crash
          ELSE /\ nparsed' = nparsed + Len(cands) - Len(all_cands)
               /\ hist' = Called(texts, SubSeq(cands, Len(all_cands) + 1, Len(cands)))
               /\ Returned(r, cands)
               /\ UNCHANGED ri
  /\ UNCHANGED <<files, elite_margin, csv, budget>>
  /\ UNCHANGED call

\* pytesseract.image_to_string raises in the turn of RoiTags[ri]: nothing
\* catches it
OcrRaise ==
  /\ pc = "ocr"
  /\ Crash
  /\ UNCHANGED <<files, elite_margin, csv, budget>>
  /\ UNCHANGED call

\* main after the loop
WriteCsv ==
  /\ pc = "write"
  /\ csv' = rows
  /\ pc' = "done"
  /\ ret' = NoRet
  /\ UNCHANGED <<files, elite_margin, fi, ri, all_cands, rows, hist, nparsed, budget>>
  /\ UNCHANGED call

Next ==
  \/ MainStart
  \/ ReadImage
  \/ CollectRoi
  \/ FinishImage
  \/ OcrRaise
  \/ WriteCsv

Spec == Init /\ [][Next]_vars

SpecImage == InitImage /\ [][Next]_vars

\* ------------------------------------------------------------------------
\* Properties of the selection (process_image on one image)
\* ------------------------------------------------------------------------
\* process_image has just returned from a selection over a non-empty list
Selected == ret.cands # <<>>

\* the highest-weight candidate of the list just selected from: among equal
\* weights the one collected first
Highest ==
  CHOOSE i \in 1..Len(ret.cands) :
    /\ \A j \in 1..Len(ret.cands) : ret.cands[j].w <= ret.cands[i].w
    /\ \A j \in 1..(i - 1) : ret.cands[j].w < ret.cands[i].w

\* the weight of the runner-up: the heaviest of the others
LeadsBy(m) ==
  \A j \in 1..Len(ret.cands) : j # Highest => ret.cands[Highest].w >= ret.cands[j].w + m

InPreferred(c) ==
  /\ c.roi \in {"left70", "full"}
  /\ c.var \in {"cubic|morph_inv", "cubic|blur_otsu_inv"}

\* C1: whatever the non-empty candidate list and the elite margin, the
\* timestamp process_image returns is the parsed timestamp of at least one
\* candidate of the list (no fabricated timestamp).
C1_NoFabricatedTimestamp ==
  Selected => \E i \in 1..Len(ret.cands) : ret.cands[i].dt = ret.dt

\* C2: the elite shortcut returns a candidate only when the highest-weight
\* candidate's ROI is left70 or full and its variant cubic|morph_inv or
\* cubic|blur_otsu_inv, whatever its lead; when the highest-weight candidate
\* is outside the preferred sets the selection goes on to the voting.
C2_EliteOnlyPreferred ==
  Selected =>
    /\ ret.tier = "elite" => InPreferred(ret.cands[Highest])
    /\ ~InPreferred(ret.cands[Highest]) =>
          /\ ret.tier \in {"fields", "whole", "top"}
          /\ ret.voted # <<>>

\* the highest-weight candidate leads every other by more than twice the
\* largest margin tried, it is outside the preferred sets, and the voting ran
C2_Witness ==
  /\ Selected
  /\ Len(ret.cands) >= 2
  /\ ~InPreferred(ret.cands[Highest])
  /\ LeadsBy(20)
  /\ ret.tier = "fields"

\* C3: when the highest-weight candidate is in the preferred sets and its
\* weight is at least the runner-up's plus the elite margin (a sole candidate
\* always leads), process_image returns that candidate's timestamp and raw
\* text, and no vote is taken.
C3_EliteReturnsLeader ==
  (Selected /\ InPreferred(ret.cands[Highest]) /\ LeadsBy(elite_margin)) =>
    /\ ret.dt = ret.cands[Highest].dt
    /\ ret.raw = ret.cands[Highest].raw
    /\ ret.tier = "elite"
    /\ ret.voted = <<>>

\* a preferred candidate leads by exactly the margin (another candidate, with
\* another timestamp, weighs that much less) and is returned
C3_Witness ==
  /\ Selected
  /\ Len(ret.cands) = 3
  /\ InPreferred(ret.cands[Highest])
  /\ LeadsBy(elite_margin) /\ ~LeadsBy(elite_margin + 1)
  /\ \E j \in 1..3 : ret.cands[j].dt # ret.cands[Highest].dt
  /\ ret.dt = ret.cands[Highest].dt
  /\ ret.tier = "elite"

\* the candidates of positive weight of the list just selected from
Positive == {i \in 1..Len(ret.cands) : ret.cands[i].w > 0}

\* the weights of the first n candidates that are positive and whose field f
\* is v, summed
RECURSIVE FieldTotal(_, _, _)
FieldTotal(n, f, v) ==
  IF n = 0 THEN 0
  ELSE FieldTotal(n - 1, f, v)
       + (IF n \in Positive /\ ret.cands[n].parts[f] = v THEN ret.cands[n].w ELSE 0)

FieldValues(f) == {ret.cands[i].parts[f] : i \in Positive}

\* the field vote ran on the list just selected from
FieldVoteRan == Selected /\ ret.voted # <<>>

\* C4: in the weighted field vote each of the six fields is decided on its
\* own: the winner is the value of greatest summed weight over the candidates
\* of weight > 0, of two values of equal sum the smaller wins, and the
\* candidates of weight <= 0 add nothing to any tally.
C4_FieldVoteWinner ==
  FieldVoteRan =>
    /\ \A f \in 1..6 :
          IF FieldValues(f) = {} THEN ret.voted[f] = NoVote
          ELSE /\ ret.voted[f] \in FieldValues(f)
               /\ \A u \in FieldValues(f) \ {ret.voted[f]} :
                    LET tw == FieldTotal(Len(ret.cands), f, ret.voted[f])
                        tu == FieldTotal(Len(ret.cands), f, u)
                    IN tw > tu \/ (tw = tu /\ ret.voted[f] < u)
    /\ ret.voted = Voted(SelectSeq(ret.cands, LAMBDA c : c.w > 0))

\* a field where two values have the same positive sum, the third candidate
\* weighing nothing or less
C4_Witness ==
  /\ FieldVoteRan
  /\ Len(ret.cands) = 3
  /\ \E i \in 1..3 : ret.cands[i].w <= 0
  /\ \E f \in 1..6 : \E u \in FieldValues(f) \ {ret.voted[f]} :
       FieldTotal(3, f, u) = FieldTotal(3, f, ret.voted[f])

\* C5: when there are candidates and every one has weight zero or less,
\* process_image returns the timestamp and the raw text of the candidate of
\* highest weight (the absolute fallback), never the unrecognized (None, "").
C5_AbsoluteFallback ==
  (Selected /\ Positive = {}) =>
    /\ ret.dt = ret.cands[Highest].dt
    /\ ret.raw = ret.cands[Highest].raw
    /\ ret.dt # <<>>
    /\ ret.tier = "top"

\* three candidates of weight zero or less, the heaviest collected second and
\* reading another timestamp than the first
C5_Witness ==
  /\ Selected
  /\ Positive = {}
  /\ Len(ret.cands) = 3
  /\ Highest = 2
  /\ ret.cands[1].dt # ret.cands[2].dt
  /\ ret.dt = ret.cands[2].dt

\* the six winners of the field vote are no date/time of the calendar
VoteInvalid ==
  /\ FieldVoteRan
  /\ \A f \in 1..6 : ret.voted[f] # NoVote
  /\ ~ValidDateTime(ret.voted)

\* C6: when the six winners of the field vote are not a calendar-valid
\* date/time the selection neither fails nor returns them: it returns what the
\* whole-string vote gives on the same list, and so the timestamp returned
\* is always calendar-valid.
C6_InvalidVoteFallsThrough ==
  /\ VoteInvalid =>
        /\ ret.tier = "whole"
        /\ ret.dt # ret.voted
        /\ ret.dt = choose_by_weighted_whole_string(ret.cands).dt
        /\ ret.raw = choose_by_weighted_whole_string(ret.cands).rep.raw
  /\ Selected => (ret.dt # <<>> /\ ValidDateTime(ret.dt))

\* three candidates of three timestamps vote 29 February of a common year
C6_Witness ==
  /\ VoteInvalid
  /\ Len(ret.cands) = 3
  /\ \A i, j \in 1..3 : i # j => ret.cands[i].dt # ret.cands[j].dt
  /\ ret.voted[1] = 2023 /\ ret.voted[2] = 2 /\ ret.voted[3] = 29
  /\ ret.tier = "whole"

\* the positive weights of the first n candidates whose canonical string is
\* k, summed
RECURSIVE GroupTotal(_, _)
GroupTotal(n, k) ==
  IF n = 0 THEN 0
  ELSE GroupTotal(n - 1, k)
       + (IF n \in Positive /\ ret.cands[n].canon = k THEN ret.cands[n].w ELSE 0)

Groups == {ret.cands[i].canon : i \in Positive}

\* group k wins the whole-string vote
Wins(k) ==
  \A u \in Groups \ {k} :
    LET tk == GroupTotal(Len(ret.cands), k)
        tu == GroupTotal(Len(ret.cands), u)
    IN tk > tu \/ (tk = tu /\ StrLess(k, u))

\* C7: the whole-string vote groups the candidates by canonical timestamp
\* string, sums the positive weights of each group, takes the group of
\* highest total (of equal totals the lexicographically smaller string) and
\* returns the heaviest member of that group, whose timestamp is the one
\* returned.
C7_WholeStringVote ==
  (Selected /\ ret.tier = "whole") =>
    \E k \in Groups :
      /\ Wins(k)
      /\ strftime(ret.dt) = k
      /\ \E i \in 1..Len(ret.cands) :
           /\ ret.cands[i].canon = k
           /\ \A j \in 1..Len(ret.cands) :
                ret.cands[j].canon = k => ret.cands[j].w <= ret.cands[i].w
           /\ ret.dt = ret.cands[i].dt
           /\ ret.raw = ret.cands[i].raw

\* two groups of the same total, the winner of two members of different
\* weights, the heavier collected second
C7_Witness ==
  /\ Selected
  /\ ret.tier = "whole"
  /\ Cardinality(Groups) = 2
  /\ \E i, j \in 1..Len(ret.cands) :
       /\ i < j
       /\ ret.cands[i].canon = strftime(ret.dt)
       /\ ret.cands[j].canon = strftime(ret.dt)
       /\ ret.cands[i].w < ret.cands[j].w
       /\ ret.raw = ret.cands[j].raw

\* ------------------------------------------------------------------------
\* Properties of the run (main over the folder)
\* ------------------------------------------------------------------------
\* the (ROI, variant) pairs of one image
NPairs == Len(RoiTags) * Len(VariantTags)

\* the image last read was decoded and the engine failed on one of its
\* pairs: it raised, or it returned a text that gave no candidate (the empty
\* string among them)
EngineFailed == hist.decoded /\ (hist.raised \/ hist.calls > hist.parsed)

\* the image last read has its row
HasRow(k) == Len(rows) > k /\ rows[k + 1][1] = files[k]

\* C8: the engine failing on one (ROI, variant) pair, by an empty string or
\* by an exception, costs that pair's candidate only: the other pairs of the
\* image are still read and the image still gets its result.
C8_EngineFailureCostsOnePair ==
  EngineFailed =>
    /\ pc # "crashed"
    /\ pc # "ocr" => (hist.calls + (IF hist.raised THEN 1 ELSE 0) = NPairs /\ HasRow(hist.img))

\* the image last read gave no candidate: it was not decoded, or none of
\* the texts of its pairs parsed
Unrecognizable ==
  /\ hist.img # 0
  /\ ~hist.decoded \/ (hist.calls = NPairs /\ hist.parsed = 0)

\* C9: for an image that cannot be decoded, or none of whose OCR texts
\* parses, process_image returns the unrecognized (None, "") as a value, not
\* as a fault; main appends the row of that image with an empty timestamp
\* field and goes on to the next image.
C9_UnrecognizedIsAValue ==
  Unrecognizable =>
    /\ pc \in {"imread", "write", "done"}
    /\ ret # NoRet => (ret.img = hist.img /\ ret.dt = <<>> /\ ret.raw = <<>>)
    /\ Len(rows) > hist.img
    /\ rows[hist.img + 1] = <<files[hist.img], <<>>, <<>> >>
    /\ IF hist.img < Len(files) THEN pc = "imread" /\ fi = hist.img + 1
       ELSE pc \in {"write", "done"}

\* the engine was called on every pair of the first image, no text parsed,
\* and main is at the second image
C9_Witness ==
  /\ hist.img = 1
  /\ hist.decoded
  /\ hist.calls = NPairs
  /\ hist.parsed = 0
  /\ ret.img = 1 /\ ret.tier = "unrecognized"
  /\ pc = "imread" /\ fi = 2

\* C10: a run over N images ends with an output of the header (file,
\* timestamp, raw_ocr) and exactly one row per image, in the order of the
\* files; a failure on one image (undecodable file, engine failure, no
\* candidate) neither changes nor removes the rows of the others.
C10_OneRowPerImage ==
  (pc \in {"done", "crashed"} /\ files # <<>>) =>
    /\ csv # Absent
    /\ Len(csv) = Len(files) + 1
    /\ csv[1] = HEADER
    /\ \A k \in 1..Len(files) : csv[k + 1][1] = files[k]

\* ------------------------------------------------------------------------
\* The text functions called on their own
\* ------------------------------------------------------------------------
\* main is not running
NoRun ==
  /\ pc = "idle"
  /\ files = <<>>
  /\ elite_margin = 8
  /\ fi = 0
  /\ ri = 0
  /\ all_cands = <<>>
  /\ rows = <<>>
  /\ csv = Absent
  /\ ret = NoRet
  /\ hist = NoHist
  /\ nparsed = 0
  /\ budget = 0

\* the strings over alphabet of length up to n
Strings(alphabet, n) == UNION {[1..k -> alphabet] : k \in 0..n}

\* a text function fn returned val
Gave(fn, val) == [fn |-> fn, val |-> val, again |-> <<>>]

\* normalize_ocr(text)
Normalize ==
  /\ out = NoOut
  /\ out' = Gave("normalize_ocr", normalize_ocr(txt))
  /\ UNCHANGED <<txt, stamp, gray, band>>
  /\ UNCHANGED run

\* normalize_ocr on what normalize_ocr returned
Renormalize ==
  /\ out.fn = "normalize_ocr"
  /\ out.again = <<>>
  /\ out' = [out EXCEPT !.again = <<normalize_ocr(out.val)>>]
  /\ UNCHANGED <<txt, stamp, gray, band>>
  /\ UNCHANGED run

\* repair_time_triplets(text)
Repair ==
  /\ out = NoOut
  /\ out' = Gave("repair_time_triplets", repair_time_triplets(txt))
  /\ UNCHANGED <<txt, stamp, gray, band>>
  /\ UNCHANGED run

\* parse_timestamp_flex(text)
Parse ==
  /\ out = NoOut
  /\ out' = Gave("parse_timestamp_flex", parse_timestamp_flex(txt))
  /\ UNCHANGED <<txt, stamp, gray, band>>
  /\ UNCHANGED run

\* the longest string normalize_ocr is tried on
MaxNormLen == 4

NormAlphabet == {" ", "\n", "/", "fullslash", ":", "-", "1", "O"}

\* normalize_ocr on every short string
InitNormalize ==
  /\ NoRun
  /\ txt \in Strings(NormAlphabet, MaxNormLen)
  /\ stamp = <<>>
  /\ out = NoOut
  /\ gray = NoGray
  /\ band = NoBand

NextNormalize ==
  \/ Normalize
  \/ Renormalize

SpecNormalize == InitNormalize /\ [][NextNormalize]_vars

\* the longest string repair_time_triplets is tried on, but for RepairLong
MaxRepairLen == 5

RepairAlphabet == {":", " ", "0", "1", "2", "7", "9"}

\* longer texts, with several runs of digits
RepairLong ==
  { <<":", "1", "0", "7", ":", "1", "0", "7">>,
    <<" ", "0", "6", "0", " ", "0", "5", "9", "\n">>,
    <<":", "1", "0", "7", "7", ":", "1", "9", "9", ":">>,
    <<"1", "0", "7", ":", "2", "9", "9", ":", "1", "5", "9">>,
    strftime(<<2024, 8, 1, 6, 31, 27>>),
    Doubled(<<2024, 8, 1, 6, 31, 27>>) }

\* repair_time_triplets on every short string
InitRepair ==
  /\ NoRun
  /\ txt \in Strings(RepairAlphabet, MaxRepairLen) \cup RepairLong
  /\ stamp = <<>>
  /\ out = NoOut
  /\ gray = NoGray
  /\ band = NoBand

NextRepair == Repair

SpecRepair == InitRepair /\ [][NextRepair]_vars

\* the dates and times whose clean text parse_timestamp_flex is tried on
StampYears == {1999, 2000, 2024, 2099, 2100}

Stamps ==
  {d \in StampYears \X {1, 2, 12} \X {1, 29, 31} \X {0, 23} \X {0, 59} \X {0, 59} :
     ValidDateTime(d)}

\* the letters the engine may print for a digit
Confusable(c) ==
  IF c = "0" THEN {"O", "o"}
  ELSE IF c = "1" THEN {"I", "l"}
  ELSE IF c = "5" THEN {"S"}
  ELSE IF c = "8" THEN {"B"}
  ELSE {}

\* the most digits of one text printed as letters
MaxConfused == 2

\* the clean text s with the digits at the places P printed as letters
ConfusedAt(s, P) ==
  {[i \in 1..Len(s) |-> IF i \in P THEN f[i] ELSE s[i]] :
     f \in {g \in [P -> {"O", "o", "I", "l", "S", "B"}] : \A i \in P : g[i] \in Confusable(s[i])}}

Confusions(s) ==
  UNION {ConfusedAt(s, P) :
           P \in {Q \in SUBSET {i \in 1..Len(s) : Confusable(s[i]) # {}} :
                    Cardinality(Q) \in 1..MaxConfused}}

ConfusedStamps == {<<2024, 8, 1, 6, 31, 27>>, <<2015, 10, 18, 5, 58, 0>>}

\* six numbers, calendar-valid or not
NoisyFields == {2023, 2024} \X {2, 13} \X {29, 30} \X {6, 24} \X {31, 60} \X {27, 60}

\* the shapes the engine prints six numbers in: without the separators, with
\* blanks for separators, with a doubled digit, with a letter between
Packed(d) ==
  Pad(d[1], 4) \o Pad(d[2], 2) \o Pad(d[3], 2) \o Pad(d[4], 2) \o Pad(d[5], 2) \o Pad(d[6], 2)

Spaced(d) ==
  Pad(d[1], 4) \o <<" ">> \o Pad(d[2], 2) \o <<" ">> \o Pad(d[3], 2) \o <<" ", " ">>
  \o Pad(d[4], 2) \o <<" ">> \o Pad(d[5], 2) \o <<" ">> \o Pad(d[6], 2)

Split(d) ==
  <<"x">> \o Pad(d[1], 4) \o <<"-">> \o Pad(d[2], 2) \o <<"-">> \o Pad(d[3], 2) \o <<"T">>
  \o Pad(d[4], 2) \o <<".">> \o Pad(d[5], 2) \o <<".">> \o Pad(d[6] \div 10, 1) \o <<"'">>
  \o Pad(d[6] % 10, 1)

NoisyTexts ==
  UNION {{strftime(d), Packed(d), Spaced(d), Doubled(d), Split(d)} : d \in NoisyFields}
  \cup {<<>>, <<":", ":", "-", "7", "\n">>, <<"2", "0", "2", "4">>}

\* a text and the date and time it was printed from
Printed(s, d) == [txt |-> s, stamp |-> d]

ParseInputs ==
  {Printed(strftime(d), d) : d \in Stamps}
  \cup UNION {{Printed(s, d) : s \in Confusions(strftime(d))} : d \in ConfusedStamps}
  \cup {Printed(s, <<>>) : s \in NoisyTexts}

\* normalize_ocr and parse_timestamp_flex on the texts of the engine
InitParse ==
  /\ NoRun
  /\ \E i \in ParseInputs : txt = i.txt /\ stamp = i.stamp
  /\ out = NoOut
  /\ gray = NoGray
  /\ band = NoBand

\* the rest of a turn of the loop of collect_candidates_from_roi, text
\* being the raw of the turn: the candidate is appended if dtobj is set
Record ==
  /\ out.fn = "parse_timestamp_flex"
  /\ out.val \notin {None, Raised}
  /\ all_cands = <<>>
  /\ \E r \in 1..Len(RoiTags) : \E v \in 1..Len(VariantTags) :
       all_cands' = <<Candidate(RoiTags[r], VariantTags[v], txt, out.val)>>
  /\ UNCHANGED <<pc, files, elite_margin, fi, ri, rows, csv, ret, hist, nparsed, budget>>
  /\ UNCHANGED call

NextParse ==
  \/ Normalize
  \/ Parse
  \/ Record

SpecParse == InitParse /\ [][NextParse]_vars

\* ------------------------------------------------------------------------
\* The banner
\* ------------------------------------------------------------------------
\* A grayscale image is the sequence of the means of its rows, top row first;
\* row y of the program is place y + 1.

\* int(h * 0.25) and int(h * 0.09): the float products truncate to the same
\* integers as the exact ones for every height up to 5000
Quarter(h) == h \div 4

NinePercent(h) == (9 * h) \div 100

\* np.where(row_means < 60)[0].tolist() for the rows y.. of the top quarter
RECURSIVE DarkFrom(_, _)
DarkFrom(g, y) ==
  IF y >= Quarter(Len(g)) THEN <<>>
  ELSE (IF g[y + 1] < 60 THEN <<y>> ELSE <<>>) \o DarkFrom(g, y + 1)

\* the loop of moving_groups from idxs[i] on, the run in progress being
\* start..prev
RECURSIVE GroupsFrom(_, _, _, _)
GroupsFrom(idxs, i, start, prev) ==
  IF i > Len(idxs) THEN <<<<start, prev>>>>
  ELSE IF idxs[i] = prev + 1 THEN GroupsFrom(idxs, i + 1, start, idxs[i])
  ELSE <<<<start, prev>>>> \o GroupsFrom(idxs, i + 1, idxs[i], idxs[i])

moving_groups(idxs) == IF idxs = <<>> THEN <<>> ELSE GroupsFrom(idxs, 2, idxs[1], idxs[1])

\* the loop over the runs that accepts any run of the length
BestAnyStart(groups, k, best) ==
  IF groups[k][2] - groups[k][1] + 1 >= 10
     /\ (best = <<>> \/ groups[k][2] - groups[k][1] > best[2] - best[1])
  THEN groups[k]
  ELSE best

\* one turn of the loop over the runs: best after the run groups[k]
BestAfter(groups, k, best) ==
  IF groups[k][1] <= 5 /\ groups[k][2] - groups[k][1] + 1 >= 10
     /\ (best = <<>> \/ groups[k][2] - groups[k][1] > best[2] - best[1])
  THEN groups[k]
  ELSE best

\* the loop over the runs from groups[k] on; <<>> is the None of best
RECURSIVE BestFrom(_, _, _)
BestFrom(groups, k, best) ==
  IF k > Len(groups) THEN best ELSE BestFrom(groups, k + 1, BestAfter(groups, k, best))

\* the fallback of 16 rows whatever the height
ChosenSixteen(h, best) == IF best = <<>> THEN <<0, 16>> ELSE best

\* the chosen run, or the fallback
Chosen(h, best) ==
  IF best = <<>> THEN <<0, IF NinePercent(h) > 16 THEN NinePercent(h) ELSE 16>> ELSE best

\* the padding that is not clamped to the height
PaddedUnclamped(h, r) == <<IF r[1] - 2 > 0 THEN r[1] - 2 ELSE 0, r[2] + 2>>

\* y0 = max(0, y0 - 2); y1 = min(h, y1 + 2)
Padded(h, r) ==
  <<IF r[1] - 2 > 0 THEN r[1] - 2 ELSE 0, IF r[2] + 2 < h THEN r[2] + 2 ELSE h>>

\* best of find_top_black_banner, and what it returns for it
BestRun(g) == BestFrom(moving_groups(DarkFrom(g, 0)), 1, <<>>)

BannerOf(h, best) == [best |-> best, range |-> Padded(h, Chosen(h, best))]

find_top_black_banner(g) == BannerOf(Len(g), BestRun(g))

\* band = gray[y0:y1, :], as the set of the rows it holds
Slice(g, range) == {y \in 0..(Len(g) - 1) : range[1] <= y /\ y < range[2]}

\* the greatest first row of the dark runs of the images tried
MaxStart == 6

Heights == {1, 3, 4, 17, 40, 64, 100, 240}

RunLengths == {0, 1, 2, 9, 10, 11, 14}

\* the image of h rows, dark (mean 59) on l1 rows from row a1 and on l2 rows
\* after a gap of one or two rows, light (mean 60) elsewhere
Image(h, a1, l1, gap, l2) ==
  [y \in 1..h |->
     IF (a1 < y /\ y <= a1 + l1) \/ (a1 + l1 + gap < y /\ y <= a1 + l1 + gap + l2)
     THEN 59 ELSE 60]

Images ==
  {Image(h, a1, l1, gap, l2) :
     h \in Heights, a1 \in 0..MaxStart, l1 \in RunLengths, gap \in 1..2, l2 \in RunLengths}

\* find_top_black_banner on images of several heights with up to two dark
\* runs
InitBanner ==
  /\ NoRun
  /\ txt = <<>>
  /\ stamp = <<>>
  /\ out = NoOut
  /\ gray \in Images
  /\ band = NoBand

\* process_image from the call of find_top_black_banner to the slice
LocateBand ==
  /\ band = NoBand
  /\ \E b \in {find_top_black_banner(gray)} :
       band' = [y0 |-> b.range[1], y1 |-> b.range[2], rows |-> Slice(gray, b.range),
                best |-> b.best]
  /\ UNCHANGED <<txt, stamp, out, gray>>
  /\ UNCHANGED run

NextBanner == LocateBand

SpecBanner == InitBanner /\ [][NextBanner]_vars

\* ------------------------------------------------------------------------
\* Claims on the text functions
\* ------------------------------------------------------------------------
\* what the five stages of the cascade give on the normalized and repaired
\* text t
StageResults(t) ==
  {Stage0(t), StagePat(DATE_THEN_TIME_1OR2H, t), grab_fields_loose(t), StagePat(FLEX_PAT, t),
   StrictFrom(t, 1)}

\* p is a date and time with the six fields it was made from
ValidFields(p) == Len(p.parts) = 6 /\ ValidDateTime(p.parts) /\ p.dt = p.parts

\* C11: parse_timestamp_flex returns either (None, None), and then no stage
\* of the cascade gave six calendar-valid numbers, or a date and time with
\* the six calendar-valid fields it was made from; every candidate recorded
\* carries such fields, equal to its date and time.
C11_ParsedFieldsValid ==
  /\ out.fn = "parse_timestamp_flex" =>
       IF out.val = None
       THEN txt = <<>> \/ StageResults(repair_time_triplets(normalize_ocr(txt))) = {None}
       ELSE ValidFields(out.val)
  /\ \A i \in 1..Len(all_cands) : ValidFields(all_cands[i])

\* a text that is not the clean print of its timestamp was recorded
C11_Witness ==
  /\ all_cands # <<>>
  /\ all_cands[1].canon # txt
  /\ ValidFields(all_cands[1])

\* parse_timestamp_flex was called on the clean print of stamp
ParsedClean == out.fn = "parse_timestamp_flex" /\ stamp # <<>> /\ txt = strftime(stamp)

\* C12, as stated: for every calendar-valid date and time (Y, M, D, h, m, s),
\* parse_timestamp_flex on the zero-padded text "YYYY-MM-DD HH:MM:SS" returns
\* exactly the fields (Y, M, D, h, m, s).
C12_RoundTripAnyYear == ParsedClean => out.val.parts = stamp

\* C12, amended: for every calendar-valid date and time (Y, M, D, h, m, s)
\* with 2000 <= Y <= 2099, parse_timestamp_flex on the zero-padded text
\* "YYYY-MM-DD HH:MM:SS" returns that date and time and exactly the fields
\* (Y, M, D, h, m, s).
C12_RoundTripThisCentury ==
  (ParsedClean /\ stamp[1] \in 2000..2099) => out.val = [dt |-> stamp, parts |-> stamp]

\* the last second of a leap day was printed and read back
C12_Witness ==
  /\ ParsedClean
  /\ stamp = <<2024, 2, 29, 23, 59, 59>>
  /\ out.val.parts = stamp

\* C13: normalize_ocr is idempotent: normalize_ocr on what normalize_ocr
\* returned returns the same string.
C13_NormalizeIdempotent == out.again # <<>> => out.again[1] = out.val

\* the characters that may bound a triplet
Separators == {":"} \cup White

\* s[i..i+2] is a run of exactly three digits after a colon or whitespace
\* and before a colon, whitespace or the end, its first digit 0 or 1 and its
\* last two digits a value 0..59
Shortened(s, i) ==
  /\ i > 1
  /\ i + 2 <= Len(s)
  /\ s[i - 1] \in Separators
  /\ \A k \in i..(i + 2) : s[k] \in Digits
  /\ (i + 3 > Len(s) \/ s[i + 3] \in Separators)
  /\ s[i] \in {"0", "1"}
  /\ ToInt(SubSeq(s, i + 1, i + 2)) <= 59

\* s from place i on, without the characters at the places of D
RECURSIVE Dropped(_, _, _)
Dropped(s, D, i) ==
  IF i > Len(s) THEN <<>>
  ELSE (IF i \in D THEN <<>> ELSE <<s[i]>>) \o Dropped(s, D, i + 1)

\* C14: repair_time_triplets returns its argument with the first digit of
\* every run of exactly three digits dropped that follows a colon or
\* whitespace, is followed by a colon, whitespace or the end of the text,
\* starts with 0 or 1 and ends with a value 0..59, and changes no other
\* character; ":299:" is returned as it is and ":107:" gives ":07:".
C14_RepairOnlyShortensTriplets ==
  out.fn = "repair_time_triplets" =>
    /\ out.val = Dropped(txt, {i \in 1..Len(txt) : Shortened(txt, i)}, 1)
    /\ txt = <<":", "2", "9", "9", ":">> => out.val = txt
    /\ txt = <<":", "1", "0", "7", ":">> => out.val = <<":", "0", "7", ":">>

\* two triplets of one text were shortened
C14_Witness ==
  /\ out.fn = "repair_time_triplets"
  /\ txt = <<":", "1", "0", "7", ":", "1", "0", "7">>
  /\ out.val = <<":", "0", "7", ":", "0", "7">>

\* text is the clean print of stamp with some digits printed as letters
PrintedConfused == stamp # <<>> /\ txt # strftime(stamp)

\* the example of the letter O for a zero
LetterOText ==
  <<"2", "O", "2", "4", "-", "0", "8", "-", "0", "1", " ", "0", "6", ":", "3", "1", ":", "2", "7">>

\* C15: of a clean timestamp text with digits replaced by their confusable
\* letters (0 by O or o, 1 by I or l, 5 by S, 8 by B), normalize_ocr returns
\* the clean text and parse_timestamp_flex returns what it returns for the
\* clean text; "2O24-08-01 06:31:27" parses to (2024, 8, 1, 6, 31, 27).
C15_ConfusableLettersRead ==
  PrintedConfused =>
    /\ out.fn = "normalize_ocr" => out.val = strftime(stamp)
    /\ out.fn = "parse_timestamp_flex" =>
         /\ out.val = parse_timestamp_flex(strftime(stamp))
         /\ txt = LetterOText => out.val.parts = <<2024, 8, 1, 6, 31, 27>>

\* a text with a lower-case letter for a digit was parsed to the fields of
\* the clean text
C15_Witness ==
  /\ PrintedConfused
  /\ \E i \in 1..Len(txt) : txt[i] \in {"o", "l"}
  /\ out.fn = "parse_timestamp_flex"
  /\ out.val.parts = stamp

\* ------------------------------------------------------------------------
\* Claims on the banner
\* ------------------------------------------------------------------------
\* find_top_black_banner has returned and the band is cut
Located == band # NoBand

\* a dark run was chosen; no run qualified
RunChosen == Located /\ band.best # <<>>

FellBack == Located /\ band.best = <<>>

\* C16: for every image of at least one row, find_top_black_banner returns
\* (row_start, row_end) with 0 <= row_start < row_end <= height.
C16_RangeInsideImage ==
  Located => 0 <= band.y0 /\ band.y0 < band.y1 /\ band.y1 <= Len(gray)

\* the range of an image of three rows is the whole image
C16_Witness == Located /\ Len(gray) = 3 /\ band.y0 = 0 /\ band.y1 = 3

\* the first n rows of the image
TopRows(n) == {y \in 0..(Len(gray) - 1) : y < n}

\* 9% of the rows, 16 at least
NinePercentOr16 == IF NinePercent(Len(gray)) > 16 THEN NinePercent(Len(gray)) ELSE 16

DarkRow(y) == gray[y + 1] < 60

TopRuns ==
  {r \in (0..(Quarter(Len(gray)) - 1)) \X (0..(Quarter(Len(gray)) - 1)) :
     /\ r[1] <= r[2]
     /\ \A y \in r[1]..r[2] : DarkRow(y)
     /\ r[1] = 0 \/ ~DarkRow(r[1] - 1)
     /\ r[2] = Quarter(Len(gray)) - 1 \/ ~DarkRow(r[2] + 1)}

\* the runs that start in one of the first n rows and span 10 rows at least
Accepted(n) == {r \in TopRuns : r[1] < n /\ r[2] - r[1] + 1 >= 10}

\* best is the longest of the runs of S, None if there is none
LongestOf(S) ==
  IF S = {} THEN band.best = <<>>
  ELSE band.best \in S /\ \A r \in S : r[2] - r[1] <= band.best[2] - band.best[1]

\* C18, as stated: of the runs of dark rows of the top 25% of the rows, the
\* longest of those that start within the first 5 rows and span at least 10
\* rows is chosen; if there is none the fallback is used.
C18_RunWithinFirstFive == Located => LongestOf(Accepted(5))

\* C18, amended: of the runs of dark rows (mean below 60) of the top 25% of
\* the rows, the longest of those that start at row index 5 or less (within
\* the first 6 rows) and span at least 10 rows is chosen; a run that starts
\* later or spans fewer rows is never chosen and the fallback is used.
C18_RunWithinFirstSix == Located => LongestOf(Accepted(6))

\* a short run at the top is passed over for the run of 10 rows after it
C18_Witness == RunChosen /\ DarkRow(0) /\ band.best = <<3, 12>>

\* C19: when the dark run of rows a..b is chosen, the band cut by
\* process_image is the rows max(0, a - 2) .. min(height - 1, b + 2).
C19_BandPadsTwoRows ==
  RunChosen =>
    band.rows = {y \in 0..(Len(gray) - 1) : band.best[1] - 2 <= y /\ y <= band.best[2] + 2}

\* ------------------------------------------------------------------------
\* The selection functions called on their own
\* ------------------------------------------------------------------------
\* the engine texts of the candidate lists tried: the clean print of a
\* timestamp, the same timestamp with a doubled digit, another timestamp
TieTexts ==
  << Clean(<<2023, 2, 28, 6, 32, 27>>),
     Doubled(<<2023, 2, 28, 6, 32, 27>>),
     Clean(<<2024, 2, 29, 6, 31, 27>>) >>

TieReadings == [t \in 1..Len(TieTexts) |-> Reading(RawOf(TieTexts[t]))]

\* the longest candidate list tried
MaxTied == 2

\* a reading: the ROI, the variant and the text the engine returned for it
Slots == (1..Len(RoiTags)) \X (1..Len(VariantTags)) \X (1..Len(TieTexts))

\* the order in which process_image collects: ROI by ROI, variant by variant
SlotBefore(a, b) == a[1] < b[1] \/ (a[1] = b[1] /\ a[2] < b[2])

SlotLists ==
  UNION {{s \in [1..n -> Slots] : \A i \in 1..(n - 1) : SlotBefore(s[i], s[i + 1])} :
           n \in 1..MaxTied}

\* all_cands for the readings s
CandsOf(s, readings) == [i \in 1..Len(s) |-> readings[s[i][3]].cand[s[i][1]][s[i][2]]]

\* the selection functions on every short list of candidates, in the order
\* of collection
InitSelect ==
  /\ pc = "idle"
  /\ files = <<>>
  /\ elite_margin \in EliteMargins
  /\ fi = 0
  /\ ri = 0
  /\ \E readings \in {TieReadings} : all_cands \in {CandsOf(s, readings) : s \in SlotLists}
  /\ rows = <<>>
  /\ csv = Absent
  /\ ret = NoRet
  /\ hist = NoHist
  /\ nparsed = 0
  /\ budget = 0
  /\ NoCall

\* choose_elite_candidate(all_cands, elite_margin)
Elite ==
  /\ out = NoOut
  /\ out' = Gave("choose_elite_candidate", choose_elite_candidate(all_cands, elite_margin))
  /\ UNCHANGED <<txt, stamp, gray, band>>
  /\ UNCHANGED run

\* choose_by_weighted_whole_string(all_cands): the representative
Whole ==
  /\ out = NoOut
  /\ out' = Gave("choose_by_weighted_whole_string",
                 choose_by_weighted_whole_string(all_cands).rep)
  /\ UNCHANGED <<txt, stamp, gray, band>>
  /\ UNCHANGED run

\* max(all_cands, key=lambda c: c["w"])
Top ==
  /\ out = NoOut
  /\ out' = Gave("max", MaxByWeight(all_cands, 1))
  /\ UNCHANGED <<txt, stamp, gray, band>>
  /\ UNCHANGED run

NextSelect ==
  \/ Elite
  \/ Whole
  \/ Top

SpecSelect == InitSelect /\ [][NextSelect]_vars

\* ------------------------------------------------------------------------
\* Claims on the order of the ROIs
\* ------------------------------------------------------------------------
\* the place of tag in the order tags
PlaceIn(tags, tag) == CHOOSE i \in 1..Len(tags) : tags[i] = tag

\* c1 is from an earlier ROI than c2 in the order full, left70, mid60,
\* right60 or, in the same ROI, from an earlier variant; or is c2
NotAfter(c1, c2) ==
  \/ PlaceIn(<<"full", "left70", "mid60", "right60">>, c1.roi)
       < PlaceIn(<<"full", "left70", "mid60", "right60">>, c2.roi)
  \/ /\ c1.roi = c2.roi
     /\ PlaceIn(VariantTags, c1.var) <= PlaceIn(VariantTags, c2.var)

\* the candidates that tie with the returned one: of its weight and, in the
\* whole-string vote, of its timestamp
Rivals ==
  {c \in {all_cands[i] : i \in 1..Len(all_cands)} :
     /\ c.w = out.val.w
     /\ out.fn = "choose_by_weighted_whole_string" => c.canon = out.val.canon}

\* C20: the candidates are collected ROI by ROI in the order full, left70,
\* mid60, right60; of several candidates of equal weight, the elite
\* ranking, the representative of the whole-string vote and the absolute
\* fallback take the one from the earliest ROI and, within one ROI, from the
\* earliest variant.
C20_TiesGoToEarliestRoi ==
  /\ \A i \in 1..(Len(all_cands) - 1) : NotAfter(all_cands[i], all_cands[i + 1])
  /\ (out.fn \in {"choose_elite_candidate", "choose_by_weighted_whole_string", "max"}
      /\ out.val # NoCand) =>
       /\ out.val \in Rivals
       /\ \A c \in Rivals : NotAfter(out.val, c)

\* two candidates of one timestamp and one weight from different ROIs: the
\* whole-string vote returned the one of the earlier ROI
C20_Witness ==
  /\ out.fn = "choose_by_weighted_whole_string"
  /\ Cardinality(Rivals) = 2
  /\ \E c \in Rivals : c.roi # out.val.roi

\* ------------------------------------------------------------------------
\* Claims on what process_image returns with the timestamp
\* ------------------------------------------------------------------------
\* process_image has just returned a timestamp
GaveTimestamp == Selected /\ ret.dt # <<>>

\* the candidates of the list just selected from whose raw text is the one
\* returned
Represented == {i \in 1..Len(ret.cands) : ret.cands[i].raw = ret.raw}

\* C21: whenever process_image returns a timestamp, the raw text returned
\* with it is the raw text of a candidate whose own parsed timestamp is the
\* returned one, whichever tier decided (elite shortcut, field vote,
\* whole-string vote, absolute fallback).
C21_RawTextOfReturnedTimestamp ==
  GaveTimestamp => \E i \in Represented : ret.cands[i].dt = ret.dt

\* the timestamps of the candidates of positive weight
PositiveStamps == {ret.cands[i].dt : i \in Positive}

\* there are candidates of positive weight and they all carry one timestamp
Unanimous == Selected /\ Cardinality(PositiveStamps) = 1

\* C22: when at least one candidate has positive weight and all the
\* candidates of positive weight carry the same timestamp T, process_image
\* returns T, under every elite margin and whatever the timestamps of the
\* candidates of weight zero or less.
C22_Unanimity ==
  Unanimous =>
    /\ ret.dt \in PositiveStamps
    /\ \A m \in EliteMargins : select(ret.cands, m).dt \in PositiveStamps

\* two candidates of positive weight read one timestamp, a third of weight
\* zero or less reads another, and the field vote decided
C22_Witness ==
  /\ Unanimous
  /\ Cardinality(Positive) = 2
  /\ \E i \in 1..Len(ret.cands) :
       /\ ret.cands[i].w <= 0
       /\ ret.cands[i].dt \notin PositiveStamps
  /\ ret.tier = "fields"
  /\ ret.dt \in PositiveStamps

====
